---- MODULE Spec2Model ----
(***************************************************************************)
(* The Elasticsearch cluster controller of pkg/controllers/elasticsearch:  *)
(* the informer event handlers, the rate limited work queue they feed,     *)
(* Run, the workers and the sync dispatcher.                               *)
(***************************************************************************)
EXTENDS Naturals, Sequences, FiniteSets

\* ------------------------------------------------------------------ bounds
\* Highest resource version a cluster object takes (each write of a cluster
\* to the store makes a new object, hence a new pointer).
MaxRV == 1
\* Highest number of consecutive failures the rate limiter counts for a key.
MaxFail == 1
\* Highest number of times in a row a client of the rate limiter requeues a key.
MaxRequeues == 4
\* Highest number of node pools of a cluster given to the validator, and
\* highest number of roles its node pools have together.
MaxPools == 2
MaxRoles == 2
\* The namespaces and names of the objects in the store; clusters are
\* written in ClusterNamespaces only.
Namespaces == {"ns1", "ns2"}
ClusterNamespaces == {"ns1"}
Names == {"A"}
\* The workers Run starts.
Workers == {"w1", "w2"}

\* The five informers the controller is built from.
CacheKinds == {"es", "deploy", "statefulset", "serviceaccount", "service"}
\* The four subordinate kinds, each with its own handler.
SubKinds == {"deploy", "statefulset", "serviceaccount", "service"}

\* ------------------------------------------------------------ the objects
\* A cluster object in the store: its identity and its resource version.
\* One object (one pointer) per identity and version.
ClusterObj(ns, name, rv) == [shape |-> "cluster", ns |-> ns, name |-> name, rv |-> rv]
\* controllers.KeyFunc of a cluster object: the string "namespace/name".
StringKey(ns, name) == [shape |-> "string", ns |-> ns, name |-> name, rv |-> 0]
\* Any other payload of a delete event (a cache.DeletedFinalStateUnknown).
OtherObj(ns, name) == [shape |-> "other", ns |-> ns, name |-> name, rv |-> 0]

StringKeys == {StringKey(ns, n) : ns \in ClusterNamespaces, n \in Names}
ClusterObjs == {ClusterObj(ns, n, rv) : ns \in ClusterNamespaces, n \in Names, rv \in 1..MaxRV}
OtherObjs == {OtherObj(ns, n) : ns \in ClusterNamespaces, n \in Names}
Keys == StringKeys \cup ClusterObjs \cup OtherObjs
NoKey == [shape |-> "none", ns |-> "", name |-> "", rv |-> 0]

\* The payload of a subordinate event: its dynamic type (a subordinate kind,
\* or "tombstone" for the cache.DeletedFinalStateUnknown a delete event may
\* carry), its namespace and its ownership marker ("" when it carries
\* none); gen tells two states of one object apart.
NoOwner == ""
ObjTypes == {"deploy", "statefulset", "serviceaccount", "service", "tombstone"}
SubObj(type, ns, owner, gen) == [type |-> type, ns |-> ns, owner |-> owner, gen |-> gen]

VARIABLES
    esGen,      \* per cluster identity: the latest resource version written
    esPresent,  \* per cluster identity: whether the cluster cache holds it
    synced,     \* per informer: HasSynced
    wq,         \* the rate limiting work queue
    stopCh,     \* whether stopCh is closed
    runPc,      \* where Run is
    wk,         \* per worker: where its goroutine is and what it holds
    cluster,    \* the cluster the validator is given
    verr        \* what the validator returned for it

vars == <<esGen, esPresent, synced, wq, stopCh, runPc, wk, cluster, verr>>

ClusterIds == ClusterNamespaces \X Names

\* ------------------------------------------------------- the work queue
\* workqueue.NewNamedRateLimitingQueue(DefaultControllerRateLimiter(), ...):
\* queue is the order of delivery, dirty the keys that need processing,
\* processing the keys a worker holds, waiting the keys AddAfter holds back,
\* failures the rate limiter's count of consecutive failures per key, delay
\* the delay the limiter gave a key at its last failure (0 when it has none).
NewNamedRateLimitingQueue ==
    [queue |-> <<>>, dirty |-> {}, processing |-> {}, shuttingDown |-> FALSE,
     waiting |-> {}, failures |-> [k \in Keys |-> 0], delay |-> [k \in Keys |-> 0]]

\* queue.Add(item)
Add(q, item) ==
    IF q.shuttingDown THEN q
    ELSE IF item \in q.dirty THEN q
    ELSE IF item \in q.processing THEN [q EXCEPT !.dirty = @ \cup {item}]
    ELSE [q EXCEPT !.dirty = @ \cup {item}, !.queue = Append(@, item)]

\* queue.Get() when it returns an item: the head of the queue moves from
\* dirty to processing.
GetItem(q) == Head(q.queue)
Get(q) ==
    [q EXCEPT !.queue = Tail(@),
              !.processing = @ \cup {Head(q.queue)},
              !.dirty = @ \ {Head(q.queue)}]
\* queue.Get() blocks while the queue is empty and not shut down, and
\* returns quit once it is empty and shut down.
GetBlocks(q) == q.queue = <<>> /\ ~q.shuttingDown
GetQuits(q) == q.queue = <<>> /\ q.shuttingDown

\* queue.Done(item): a key re-added while it was processed is queued now.
Done(q, item) ==
    IF item \in q.dirty
    THEN [q EXCEPT !.processing = @ \ {item}, !.queue = Append(@, item)]
    ELSE [q EXCEPT !.processing = @ \ {item}]

\* The rate limiter's delays, in units of its base delay, and its cap.
BaseDelay == 1
MaxDelay == 4
Min(a, b) == IF a <= b THEN a ELSE b

\* As When, without the cap.
When_Uncapped(failures) == BaseDelay * 2^failures

\* rateLimiter.When(item) for an item that has failed this many times in a
\* row: the base delay doubled per failure, up to the cap.
When(failures) == Min(BaseDelay * 2^failures, MaxDelay)

\* queue.AddRateLimited(item): the limiter counts one more failure and the
\* item is held back until its delay has passed.
AddRateLimited(q, item) ==
    IF q.shuttingDown
    THEN [q EXCEPT !.failures[item] = @ + 1, !.delay[item] = When(q.failures[item])]
    ELSE [q EXCEPT !.failures[item] = @ + 1, !.delay[item] = When(q.failures[item]),
                   !.waiting = @ \cup {item}]

\* The delay of a held back item passes: the delaying queue Adds it.
DelayPassed(q, item) == Add([q EXCEPT !.waiting = @ \ {item}], item)

\* queue.Forget(item)
Forget(q, item) == [q EXCEPT !.failures[item] = 0, !.delay[item] = 0]

\* queue.ShutDown()
ShutDown(q) == [q EXCEPT !.shuttingDown = TRUE]

\* -------------------------------------------------- the informer events
\* reflect.DeepEqual(old, cur)
DeepEqual(old, cur) == old = cur

\* controllers.KeyFunc(obj): "namespace/name" of the object.
KeyFunc(obj) == StringKey(obj.ns, obj.name)

\* As enqueueElasticsearchCluster, queuing the object where the key is meant.
enqueueElasticsearchCluster_Object(q, obj) == Add(q, obj)

\* enqueueElasticsearchCluster(obj): the key of a cluster object is queued.
enqueueElasticsearchCluster(q, obj) == Add(q, KeyFunc(obj))

\* enqueueElasticsearchClusterDelete(obj): the object itself is queued.
enqueueElasticsearchClusterDelete(q, obj) == Add(q, obj)

\* managedOwnerRef(meta): the ownership marker, or none.
managedOwnerRef(obj) == obj.owner

\* esLister.ElasticsearchClusters(ns).Get(name): whether the cluster cache
\* holds the cluster, and the object it then returns.
ListerFinds(ns, name) == <<ns, name>> \in ClusterIds /\ esPresent[<<ns, name>>]
ListerGet(ns, name) == ClusterObj(ns, name, esGen[<<ns, name>>])

\* As enqueueOwner, looking the owner up by its name in every namespace.
enqueueOwner_AnyNamespace(q, obj) ==
    IF managedOwnerRef(obj) = NoOwner THEN q
    ELSE IF \A ns \in Namespaces : ~ListerFinds(ns, managedOwnerRef(obj)) THEN q
    ELSE enqueueElasticsearchCluster(q,
            ListerGet((CHOOSE ns \in Namespaces : ListerFinds(ns, managedOwnerRef(obj))),
                      managedOwnerRef(obj)))

\* What the four handlers do once the payload has the handler's type: no
\* marker, or an owner the cluster cache does not hold, and nothing is
\* queued; else the owner is queued.
enqueueOwner(q, obj) ==
    IF managedOwnerRef(obj) = NoOwner THEN q
    ELSE IF ~ListerFinds(obj.ns, managedOwnerRef(obj)) THEN q
    ELSE enqueueElasticsearchCluster(q, ListerGet(obj.ns, managedOwnerRef(obj)))

handleDeploy(q, obj) ==
    IF obj.type # "deploy" THEN q ELSE enqueueOwner(q, obj)
handleStatefulSet(q, obj) ==
    IF obj.type # "statefulset" THEN q ELSE enqueueOwner(q, obj)
handleServiceAccount(q, obj) ==
    IF obj.type # "serviceaccount" THEN q ELSE enqueueOwner(q, obj)
handleService(q, obj) ==
    IF obj.type # "service" THEN q ELSE enqueueOwner(q, obj)

handle(kind, q, obj) ==
    CASE kind = "deploy" -> handleDeploy(q, obj)
      [] kind = "statefulset" -> handleStatefulSet(q, obj)
      [] kind = "serviceaccount" -> handleServiceAccount(q, obj)
      [] kind = "service" -> handleService(q, obj)

\* As UpdateFunc, without the comparison of old and cur.
UpdateFunc_Unfiltered(kind, q, old, cur) == handle(kind, q, cur)

\* The UpdateFunc registered for a subordinate kind: nothing when old and
\* cur are equal, else the kind's handler on cur.
UpdateFunc(kind, q, old, cur) ==
    IF DeepEqual(old, cur) THEN q ELSE handle(kind, q, cur)

\* The UpdateFunc registered for clusters.
esUpdateFunc(q, old, cur) ==
    IF DeepEqual(old, cur) THEN q ELSE enqueueElasticsearchCluster(q, cur)

\* ------------------------------------------------------- the validator
\* c.Spec of a v1.ElasticsearchCluster: Version and NodePools; a node pool
\* has Roles and State, which is nil or has Stateful and Persistence.Enabled.
Versions == {"", "7.1"}
RoleNames == {"data", "client", "master", "worker", "ingest"}
NilState == [present |-> FALSE, stateful |-> FALSE, persistence |-> FALSE]
States ==
    {NilState} \cup
    {[present |-> TRUE, stateful |-> s, persistence |-> p] : s, p \in BOOLEAN}
NewCluster == [version |-> "", nodePools |-> <<>>]

\* The errors of the validator, by their message, and nil.
NoError == [err |-> "nil", role |-> ""]
ErrVersion == [err |-> "cluster version number must be specified", role |-> ""]
ErrRole(role) == [err |-> "invalid role specified", role |-> role]
ErrPersistence ==
    [err |-> "a non-stateful node pool cannot have persistence enabled", role |-> ""]
NotVerified == [err |-> "not verified", role |-> ""]

\* for _, role := range np.Roles { switch role { ... default: return ... } }
RECURSIVE verifyRoles(_)
verifyRoles(roles) ==
    IF roles = <<>> THEN NoError
    ELSE IF Head(roles) \in {"data", "client", "master"} THEN verifyRoles(Tail(roles))
    ELSE ErrRole(Head(roles))

\* As verifyNodePool, with the state of the pool looked at before its roles.
verifyNodePool_StateFirst(np) ==
    IF np.state.present /\ ~np.state.stateful /\ np.state.persistence
    THEN ErrPersistence
    ELSE verifyRoles(np.roles)

\* As verifyNodePool, rejecting every pool that is not stateful.
verifyNodePool_NonStateful(np) ==
    IF verifyRoles(np.roles) # NoError THEN verifyRoles(np.roles)
    ELSE IF np.state.present /\ ~np.state.stateful
    THEN ErrPersistence
    ELSE NoError

\* verifyNodePool(np)
verifyNodePool(np) ==
    IF verifyRoles(np.roles) # NoError THEN verifyRoles(np.roles)
    ELSE IF np.state.present /\ ~np.state.stateful /\ np.state.persistence
    THEN ErrPersistence
    ELSE NoError

\* for _, np := range c.Spec.NodePools { if err := verifyNodePool(np) ... }
RECURSIVE verifyNodePools(_)
verifyNodePools(nps) ==
    IF nps = <<>> THEN NoError
    ELSE IF verifyNodePool(Head(nps)) # NoError THEN verifyNodePool(Head(nps))
    ELSE verifyNodePools(Tail(nps))

\* verifyElasticsearchCluster(c)
verifyElasticsearchCluster(c) ==
    IF c.version = "" THEN ErrVersion ELSE verifyNodePools(c.nodePools)

\* ------------------------------------------------------------- the state
NoWork ==
    [pc |-> "idle", key |-> NoKey, lookup |-> "none", es |-> NoKey,
     err |-> FALSE, calls |-> 0, arg |-> NoKey, forgot |-> FALSE,
     requeued |-> FALSE, stamped |-> FALSE]

Init ==
    /\ esGen = [c \in ClusterIds |-> 0]
    /\ esPresent = [c \in ClusterIds |-> FALSE]
    /\ synced = [k \in CacheKinds |-> FALSE]
    /\ wq = NewNamedRateLimitingQueue
    /\ stopCh = FALSE
    /\ runPc = "waitForCacheSync"
    /\ wk = [w \in Workers |-> NoWork]
    /\ cluster = NewCluster
    /\ verr = NotVerified

\* --------------------------------------------- the store and its events
\* An informer has applied its initial listing.
HasSynced(kind) ==
    /\ ~synced[kind]
    /\ synced' = [synced EXCEPT ![kind] = TRUE]
    /\ UNCHANGED <<esGen, esPresent, wq, stopCh, runPc, wk, cluster, verr>>

\* A cluster appears in the store: the cache takes it and the AddFunc runs.
esAdd(c) ==
    /\ ~esPresent[c] /\ esGen[c] < MaxRV
    /\ esGen' = [esGen EXCEPT ![c] = @ + 1]
    /\ esPresent' = [esPresent EXCEPT ![c] = TRUE]
    /\ wq' = enqueueElasticsearchCluster(wq, ClusterObj(c[1], c[2], esGen[c] + 1))
    /\ UNCHANGED <<synced, stopCh, runPc, wk, cluster, verr>>

\* A cluster is written (a new object) or resynced (the same object).
esUpdate(c, same) ==
    /\ esPresent[c] /\ (same \/ esGen[c] < MaxRV)
    /\ esGen' = [esGen EXCEPT ![c] = IF same THEN @ ELSE @ + 1]
    /\ wq' = esUpdateFunc(wq, ClusterObj(c[1], c[2], esGen[c]),
                              ClusterObj(c[1], c[2], esGen'[c]))
    /\ UNCHANGED <<esPresent, synced, stopCh, runPc, wk, cluster, verr>>

\* A cluster leaves the store: the cache drops it and the DeleteFunc runs on
\* the object the cache held, or on a tombstone.
esDelete(c, tombstone) ==
    /\ esPresent[c]
    /\ esPresent' = [esPresent EXCEPT ![c] = FALSE]
    /\ wq' = enqueueElasticsearchClusterDelete(wq,
                IF tombstone THEN OtherObj(c[1], c[2])
                ELSE ClusterObj(c[1], c[2], esGen[c]))
    /\ UNCHANGED <<esGen, synced, stopCh, runPc, wk, cluster, verr>>

\* An add event of a subordinate kind.
subAdd(kind, ns, owner) ==
    /\ wq' = handle(kind, wq, SubObj(kind, ns, owner, 1))
    /\ UNCHANGED <<esGen, esPresent, synced, stopCh, runPc, wk, cluster, verr>>

\* An update event of a subordinate kind, with the same object twice (a
\* resync) or with a changed one.
subUpdate(kind, ns, owner, same) ==
    /\ wq' = UpdateFunc(kind, wq, SubObj(kind, ns, owner, 1),
                        SubObj(kind, ns, owner, IF same THEN 1 ELSE 2))
    /\ UNCHANGED <<esGen, esPresent, synced, stopCh, runPc, wk, cluster, verr>>

\* A delete event of a subordinate kind, with the object or a tombstone.
subDelete(kind, ns, owner, tombstone) ==
    /\ wq' = handle(kind, wq,
                SubObj(IF tombstone THEN "tombstone" ELSE kind, ns, owner, 1))
    /\ UNCHANGED <<esGen, esPresent, synced, stopCh, runPc, wk, cluster, verr>>

\* The delay of a rate limited key passes.
DelayElapsed(k) ==
    /\ k \in wq.waiting
    /\ wq' = DelayPassed(wq, k)
    /\ UNCHANGED <<esGen, esPresent, synced, stopCh, runPc, wk, cluster, verr>>

\* stopCh is closed.
Stop ==
    /\ ~stopCh
    /\ stopCh' = TRUE
    /\ UNCHANGED <<esGen, esPresent, synced, wq, runPc, wk, cluster, verr>>

\* ------------------------------------------------------------------- Run
\* cache.WaitForCacheSync(stopCh, deployListerSynced, esListerSynced,
\* statefulSetListerSynced): returns once the three report synced, or once
\* stopCh is closed (Run then reports an error and goes on).
WaitForCacheSyncReturns ==
    \/ synced["deploy"] /\ synced["es"] /\ synced["statefulset"]
    \/ stopCh

RunWaitForCacheSync ==
    /\ runPc = "waitForCacheSync"
    /\ WaitForCacheSyncReturns
    /\ runPc' = "startWorkers"
    /\ UNCHANGED <<esGen, esPresent, synced, wq, stopCh, wk, cluster, verr>>

\* for i := 0; i < workers; i++ { go wait.Until(e.worker, time.Second, stopCh) }
RunStartWorkers ==
    /\ runPc = "startWorkers"
    /\ wk' = [w \in Workers |-> [NoWork EXCEPT !.pc = "until"]]
    /\ runPc' = "waitStop"
    /\ UNCHANGED <<esGen, esPresent, synced, wq, stopCh, cluster, verr>>

\* <-stopCh, then the deferred e.queue.ShutDown()
RunReturn ==
    /\ runPc = "waitStop"
    /\ stopCh
    /\ wq' = ShutDown(wq)
    /\ runPc' = "returned"
    /\ UNCHANGED <<esGen, esPresent, synced, stopCh, wk, cluster, verr>>

\* ------------------------------------------------------------ the workers
\* As Until, calling worker again without a look at stopCh.
Until_IgnoresStop(w) ==
    /\ wk[w].pc = "until"
    /\ wk' = [wk EXCEPT ![w].pc = "get"]
    /\ UNCHANGED <<esGen, esPresent, synced, wq, stopCh, runPc, cluster, verr>>

\* wait.Until: the head of its loop returns when stopCh is closed and else
\* calls worker.
Until(w) ==
    /\ wk[w].pc = "until"
    /\ wk' = [wk EXCEPT ![w].pc = IF stopCh THEN "exited" ELSE "get"]
    /\ UNCHANGED <<esGen, esPresent, synced, wq, stopCh, runPc, cluster, verr>>

\* wait.Until after worker has returned: it waits for stopCh or for the
\* period to pass.
UntilSleep(w) ==
    /\ wk[w].pc = "sleep"
    /\ \/ wk' = [wk EXCEPT ![w].pc = "until"]
       \/ stopCh /\ wk' = [wk EXCEPT ![w].pc = "exited"]
    /\ UNCHANGED <<esGen, esPresent, synced, wq, stopCh, runPc, cluster, verr>>

\* As processNextWorkItemGet, with Done called at once instead of deferred.
processNextWorkItemGet_DoneAtOnce(w) ==
    /\ wk[w].pc = "get"
    /\ ~GetBlocks(wq)
    /\ IF GetQuits(wq)
       THEN /\ wk' = [wk EXCEPT ![w] = [NoWork EXCEPT !.pc = "sleep"]]
            /\ wq' = wq
       ELSE /\ wk' = [wk EXCEPT ![w] = [NoWork EXCEPT !.pc = "dispatch", !.key = GetItem(wq)]]
            /\ wq' = Done(Get(wq), GetItem(wq))
    /\ UNCHANGED <<esGen, esPresent, synced, stopCh, runPc, cluster, verr>>

\* processNextWorkItem: key, quit := e.queue.Get(); quit ends worker's loop.
processNextWorkItemGet(w) ==
    /\ wk[w].pc = "get"
    /\ ~GetBlocks(wq)
    /\ IF GetQuits(wq)
       THEN /\ wk' = [wk EXCEPT ![w] = [NoWork EXCEPT !.pc = "sleep"]]
            /\ wq' = wq
       ELSE /\ wk' = [wk EXCEPT ![w] = [NoWork EXCEPT !.pc = "dispatch", !.key = GetItem(wq)]]
            /\ wq' = Get(wq)
    /\ UNCHANGED <<esGen, esPresent, synced, stopCh, runPc, cluster, verr>>

\* As syncLookup, with not found returned as an error like any other.
syncLookup_NotFoundIsError(w, lookupFails) ==
    /\ wk[w].pc = "dispatch"
    /\ wk[w].key.shape = "string"
    /\ wk' = [wk EXCEPT ![w] =
                IF lookupFails
                THEN [wk[w] EXCEPT !.pc = "synced", !.lookup = "error", !.err = TRUE]
                ELSE IF ~ListerFinds(wk[w].key.ns, wk[w].key.name)
                THEN [wk[w] EXCEPT !.pc = "synced", !.lookup = "notfound", !.err = TRUE]
                ELSE [wk[w] EXCEPT !.pc = "strategy", !.lookup = "found",
                         !.es = ListerGet(wk[w].key.ns, wk[w].key.name)]]
    /\ UNCHANGED <<esGen, esPresent, synced, wq, stopCh, runPc, cluster, verr>>

\* As syncLookup, setting the deletion timestamp of the cluster it found.
syncLookup_StampsCached(w, lookupFails) ==
    /\ wk[w].pc = "dispatch"
    /\ wk[w].key.shape = "string"
    /\ lookupFails => wq.failures[wk[w].key] < MaxFail
    /\ wk' = [wk EXCEPT ![w] =
                IF lookupFails
                THEN [wk[w] EXCEPT !.pc = "synced", !.lookup = "error", !.err = TRUE]
                ELSE IF ~ListerFinds(wk[w].key.ns, wk[w].key.name)
                THEN [wk[w] EXCEPT !.pc = "synced", !.lookup = "notfound", !.err = FALSE]
                ELSE [wk[w] EXCEPT !.pc = "strategy", !.lookup = "found",
                         !.es = ListerGet(wk[w].key.ns, wk[w].key.name),
                         !.stamped = TRUE]]
    /\ UNCHANGED <<esGen, esPresent, synced, wq, stopCh, runPc, cluster, verr>>

\* sync(key) up to the lookup of a string key: not found is success, another
\* lookup error is returned, a cluster found goes to the strategy.
syncLookup(w, lookupFails) ==
    /\ wk[w].pc = "dispatch"
    /\ wk[w].key.shape = "string"
    /\ lookupFails => wq.failures[wk[w].key] < MaxFail
    /\ wk' = [wk EXCEPT ![w] =
                IF lookupFails
                THEN [wk[w] EXCEPT !.pc = "synced", !.lookup = "error", !.err = TRUE]
                ELSE IF ~ListerFinds(wk[w].key.ns, wk[w].key.name)
                THEN [wk[w] EXCEPT !.pc = "synced", !.lookup = "notfound", !.err = FALSE]
                ELSE [wk[w] EXCEPT !.pc = "strategy", !.lookup = "found",
                         !.es = ListerGet(wk[w].key.ns, wk[w].key.name)]]
    /\ UNCHANGED <<esGen, esPresent, synced, wq, stopCh, runPc, cluster, verr>>

\* processNextWorkItem on a cluster object: es.DeletionTimestamp = &t
stampDeletion(w) ==
    /\ wk[w].pc = "dispatch"
    /\ wk[w].key.shape = "cluster"
    /\ wk' = [wk EXCEPT ![w].pc = "strategy", ![w].es = wk[w].key,
                         ![w].stamped = TRUE]
    /\ UNCHANGED <<esGen, esPresent, synced, wq, stopCh, runPc, cluster, verr>>

\* As skipOther, returning without the deferred Done.
skipOther_NoDone(w) ==
    /\ wk[w].pc = "dispatch"
    /\ wk[w].key.shape = "other"
    /\ wk' = [wk EXCEPT ![w] = [NoWork EXCEPT !.pc = "get"]]
    /\ UNCHANGED <<esGen, esPresent, synced, wq, stopCh, runPc, cluster, verr>>

\* As skipOther, forgetting the key like a cluster object's.
skipOther_Forget(w) ==
    /\ wk[w].pc = "dispatch"
    /\ wk[w].key.shape = "other"
    /\ wq' = Forget(wq, wk[w].key)
    /\ wk' = [wk EXCEPT ![w].pc = "done", ![w].forgot = TRUE]
    /\ UNCHANGED <<esGen, esPresent, synced, stopCh, runPc, cluster, verr>>

\* processNextWorkItem on a key that is neither: nothing but the deferred Done.
skipOther(w) ==
    /\ wk[w].pc = "dispatch"
    /\ wk[w].key.shape = "other"
    /\ wk' = [wk EXCEPT ![w].pc = "done"]
    /\ UNCHANGED <<esGen, esPresent, synced, wq, stopCh, runPc, cluster, verr>>

\* elasticsearchClusterControl.SyncElasticsearchCluster(es) returns, with an
\* error or without.
SyncElasticsearchCluster(w, fails) ==
    /\ wk[w].pc = "strategy"
    /\ (fails /\ wk[w].key.shape = "string") => wq.failures[wk[w].key] < MaxFail
    /\ wk' = [wk EXCEPT ![w].pc = "synced", ![w].err = fails,
                        ![w].calls = @ + 1, ![w].arg = wk[w].es]
    /\ UNCHANGED <<esGen, esPresent, synced, wq, stopCh, runPc, cluster, verr>>

\* As requeueOrForget, forgetting the key whatever sync returned.
requeueOrForget_AlwaysForget(w) ==
    /\ wk[w].pc = "synced"
    /\ wq' = Forget(wq, wk[w].key)
    /\ wk' = [wk EXCEPT ![w].pc = "done", ![w].forgot = TRUE]
    /\ UNCHANGED <<esGen, esPresent, synced, stopCh, runPc, cluster, verr>>

\* As requeueOrForget, requeuing a cluster object too when the strategy failed.
requeueOrForget_RetryObject(w) ==
    /\ wk[w].pc = "synced"
    /\ IF wk[w].err
       THEN /\ wq' = AddRateLimited(wq, wk[w].key)
            /\ wk' = [wk EXCEPT ![w].pc = "done", ![w].requeued = TRUE]
       ELSE /\ wq' = Forget(wq, wk[w].key)
            /\ wk' = [wk EXCEPT ![w].pc = "done", ![w].forgot = TRUE]
    /\ UNCHANGED <<esGen, esPresent, synced, stopCh, runPc, cluster, verr>>

\* processNextWorkItem after sync or the strategy has returned: a string
\* key is requeued on an error and forgotten else; a cluster object is
\* forgotten.
requeueOrForget(w) ==
    /\ wk[w].pc = "synced"
    /\ IF wk[w].key.shape = "string" /\ wk[w].err
       THEN /\ wq' = AddRateLimited(wq, wk[w].key)
            /\ wk' = [wk EXCEPT ![w].pc = "done", ![w].requeued = TRUE]
       ELSE /\ wq' = Forget(wq, wk[w].key)
            /\ wk' = [wk EXCEPT ![w].pc = "done", ![w].forgot = TRUE]
    /\ UNCHANGED <<esGen, esPresent, synced, stopCh, runPc, cluster, verr>>

\* As processNextWorkItemDone, without the call of Done.
processNextWorkItemDone_NoDone(w) ==
    /\ wk[w].pc = "done"
    /\ wq' = wq
    /\ wk' = [wk EXCEPT ![w] = [NoWork EXCEPT !.pc = "get"]]
    /\ UNCHANGED <<esGen, esPresent, synced, stopCh, runPc, cluster, verr>>

\* The deferred e.queue.Done(key); processNextWorkItem returns true and
\* worker calls it again.
processNextWorkItemDone(w) ==
    /\ wk[w].pc = "done"
    /\ wq' = Done(wq, wk[w].key)
    /\ wk' = [wk EXCEPT ![w] = [NoWork EXCEPT !.pc = "get"]]
    /\ UNCHANGED <<esGen, esPresent, synced, stopCh, runPc, cluster, verr>>

\* ------------------------------------------------------ the specification
\* The events of the subordinate kinds: of every kind the add, the changed
\* update and the delete of an object the cluster owns, and of the
\* deployments also the events a handler drops: the add of an object whose
\* owner is in another namespace and of one without an owner, a resync and
\* a tombstone.
AddedObjs ==
    {<<k, "ns1", "A">> : k \in SubKinds}
        \cup {<<"deploy", "ns2", "A">>, <<"deploy", "ns1", NoOwner>>}
UpdatedObjs ==
    {<<k, "ns1", "A", FALSE>> : k \in SubKinds} \cup {<<"deploy", "ns1", "A", TRUE>>}
DeletedObjs ==
    {<<k, "ns1", "A", FALSE>> : k \in SubKinds} \cup {<<"deploy", "ns1", "A", TRUE>>}

Next ==
    \/ \E k \in CacheKinds : HasSynced(k)
    \/ \E c \in ClusterIds : esAdd(c)
    \/ \E c \in ClusterIds, same \in BOOLEAN : esUpdate(c, same)
    \/ \E c \in ClusterIds, tombstone \in BOOLEAN : esDelete(c, tombstone)
    \/ \E o \in AddedObjs : subAdd(o[1], o[2], o[3])
    \/ \E o \in UpdatedObjs : subUpdate(o[1], o[2], o[3], o[4])
    \/ \E o \in DeletedObjs : subDelete(o[1], o[2], o[3], o[4])
    \/ \E k \in Keys : DelayElapsed(k)
    \/ Stop
    \/ RunWaitForCacheSync
    \/ RunStartWorkers
    \/ RunReturn
    \/ \E w \in Workers : Until(w)
    \/ \E w \in Workers : UntilSleep(w)
    \/ \E w \in Workers : processNextWorkItemGet(w)
    \/ \E w \in Workers, f \in BOOLEAN : syncLookup(w, f)
    \/ \E w \in Workers : stampDeletion(w)
    \/ \E w \in Workers : skipOther(w)
    \/ \E w \in Workers, f \in BOOLEAN : SyncElasticsearchCluster(w, f)
    \/ \E w \in Workers : requeueOrForget(w)
    \/ \E w \in Workers : processNextWorkItemDone(w)

Spec == Init /\ [][Next]_vars

\* The steps of Run's goroutine and of one worker's goroutine.
RunStep == RunWaitForCacheSync \/ RunStartWorkers \/ RunReturn
WorkerStep(w) ==
    \/ Until(w)
    \/ UntilSleep(w)
    \/ processNextWorkItemGet(w)
    \/ \E f \in BOOLEAN : syncLookup(w, f)
    \/ stampDeletion(w)
    \/ skipOther(w)
    \/ \E f \in BOOLEAN : SyncElasticsearchCluster(w, f)
    \/ requeueOrForget(w)
    \/ processNextWorkItemDone(w)

\* The scheduler runs every goroutine that can take a step, a lookup and
\* the strategy return, a timer of the delaying queue fires, and an
\* informer that has been started syncs.
Fairness ==
    /\ WF_vars(RunStep)
    /\ \A w \in Workers : WF_vars(WorkerStep(w))
    /\ WF_vars(\E k \in Keys : DelayElapsed(k))
    /\ WF_vars(\E k \in CacheKinds : HasSynced(k))

LiveSpec == Spec /\ Fairness

\* The least the scheduler does: it runs some worker's goroutine while one
\* can take a step.
ShutdownSpec == Spec /\ WF_vars(\E w \in Workers : WorkerStep(w))

\* ------------------------------------------- the rate limiter by itself
\* The calls processNextWorkItem makes on the queue's rate limiter, made
\* by any client in any order: e.queue.AddRateLimited(key) and
\* e.queue.Forget(key).
rlAddRateLimited(k) ==
    /\ wq.failures[k] < MaxRequeues
    /\ wq' = AddRateLimited(wq, k)
    /\ UNCHANGED <<esGen, esPresent, synced, stopCh, runPc, wk, cluster, verr>>

rlForget(k) ==
    /\ wq' = Forget(wq, k)
    /\ UNCHANGED <<esGen, esPresent, synced, stopCh, runPc, wk, cluster, verr>>

RateLimiterNext ==
    \/ \E k \in Keys : rlAddRateLimited(k)
    \/ \E k \in Keys : rlForget(k)

RateLimiterSpec == Init /\ [][RateLimiterNext]_vars

\* ----------------------------------------------- the validator by itself
\* The clusters the validator is given: any version, node pools with any
\* state, any roles.
RECURSIVE CountRoles(_)
CountRoles(nps) ==
    IF nps = <<>> THEN 0 ELSE Len(Head(nps).roles) + CountRoles(Tail(nps))

setVersion(v) ==
    /\ verr = NotVerified
    /\ cluster.version # v
    /\ cluster' = [cluster EXCEPT !.version = v]
    /\ UNCHANGED <<esGen, esPresent, synced, wq, stopCh, runPc, wk, verr>>

addNodePool(st) ==
    /\ verr = NotVerified
    /\ Len(cluster.nodePools) < MaxPools
    /\ cluster' = [cluster EXCEPT
                      !.nodePools = Append(@, [roles |-> <<>>, state |-> st])]
    /\ UNCHANGED <<esGen, esPresent, synced, wq, stopCh, runPc, wk, verr>>

addRole(role) ==
    /\ verr = NotVerified
    /\ cluster.nodePools # <<>>
    /\ CountRoles(cluster.nodePools) < MaxRoles
    /\ cluster' = [cluster EXCEPT
                      !.nodePools[Len(cluster.nodePools)].roles = Append(@, role)]
    /\ UNCHANGED <<esGen, esPresent, synced, wq, stopCh, runPc, wk, verr>>

\* err := verifyElasticsearchCluster(c)
verify ==
    /\ verr = NotVerified
    /\ verr' = verifyElasticsearchCluster(cluster)
    /\ UNCHANGED <<esGen, esPresent, synced, wq, stopCh, runPc, wk, cluster>>

VerifyNext ==
    \/ \E v \in Versions : setVersion(v)
    \/ \E st \in States : addNodePool(st)
    \/ \E role \in RoleNames : addRole(role)
    \/ verify

VerifySpec == Init /\ [][VerifyNext]_vars

\* ----------------------------------------------------------- the claims
Count(seq, k) == Cardinality({i \in DOMAIN seq : seq[i] = k})
\* A worker holds a key from Get returning it until its Done.
Holds(w) == wk[w].pc \in {"dispatch", "strategy", "synced", "done"}
\* The step in which Get returns a key to w, and the step of w's Done.
Dequeues(w) == wk[w].pc = "get" /\ wk'[w].pc = "dispatch"
Releases(w) == wk[w].pc = "done" /\ wk'[w].pc = "get"

\* The payloads a subordinate event can carry.
Payloads ==
    {SubObj(t, ns, o, g) : t \in ObjTypes, ns \in Namespaces,
                           o \in Names \cup {NoOwner}, g \in 1..2}
\* The update events: a kind with the old and the cur state of one object.
\* cur is old itself (a resync) or a later generation of it, whose owner
\* may have changed.
UpdateEvents ==
    {<<old.type, old, cur>> : <<old, cur>> \in
        {u \in Payloads \X Payloads :
            /\ u[1].type \in SubKinds /\ u[2].type = u[1].type
            /\ u[1].ns = u[2].ns /\ u[1].gen = 1
            /\ (u[2] = u[1] \/ u[2].gen = 2)}}
\* A handler and the payload it is called with: every payload of the
\* handler's own type, and every payload of another type that names a
\* cluster in the cluster's namespace.
HandlerCalls ==
    {h \in SubKinds \X Payloads :
        h[2].gen = 1 /\ (h[2].type = h[1] \/ <<h[2].ns, h[2].owner>> \in ClusterIds)}
\* The three checks of a handler: the payload has the handler's type, it
\* carries an ownership marker, the cluster cache holds the owner in the
\* payload's namespace.
TypeOk(kind, obj) == obj.type = kind
HasMarker(obj) == obj.owner # NoOwner
OwnerCached(obj) == \E c \in ClusterIds : c = <<obj.ns, obj.owner>> /\ esPresent[c]
ChecksPass(kind, obj) == TypeOk(kind, obj) /\ HasMarker(obj) /\ OwnerCached(obj)
OwnerKey(obj) == StringKey(obj.ns, obj.owner)

\* C1. Deduplication: a key that is pending and not held by a worker is in
\* the queue exactly once, and no other key is in it, so that one Get
\* returns it however often it was added; queuing a cluster again, with
\* whatever object of it an event carries or from a handler of one of its
\* subordinates, changes nothing once it has been queued.
C1_Dedup ==
    /\ \A k \in Keys :
          Count(wq.queue, k) = IF k \in wq.dirty /\ k \notin wq.processing THEN 1 ELSE 0
    /\ \A c \in ClusterIds, rv1, rv2 \in 1..2 :
          LET once == enqueueElasticsearchCluster(wq, ClusterObj(c[1], c[2], rv1))
          IN  /\ enqueueElasticsearchCluster(once, ClusterObj(c[1], c[2], rv2)) = once
              /\ \A kind \in SubKinds :
                    handle(kind, once, SubObj(kind, c[1], c[2], 1)) = once

\* A cluster's key is queued, undelivered, and the cluster is cached, so
\* that every further event of the cluster or of its subordinates queues
\* the same key again.
C1_Witness ==
    \E c \in ClusterIds :
       /\ esPresent[c]
       /\ Count(wq.queue, StringKey(c[1], c[2])) = 1
       /\ ~wq.shuttingDown
       /\ handleDeploy(wq, SubObj("deploy", c[1], c[2], 1)) = wq

\* C2. In-flight exclusivity: no two workers hold the same key at once.
C2_InFlightExclusive ==
    \A w1, w2 \in Workers :
       (w1 # w2 /\ Holds(w1) /\ Holds(w2)) => wk[w1].key # wk[w2].key

\* One worker holds a key that has been added again meanwhile, and the
\* other worker is at Get.
C2_Witness ==
    \E w1, w2 \in Workers :
       /\ w1 # w2
       /\ Holds(w1) /\ wk[w1].key \in wq.dirty
       /\ wk[w2].pc = "get"

\* C3. Deferred re-add: a key that is being processed is not in the queue,
\* however often it was added meanwhile; its Done queues it exactly once if
\* it was added meanwhile and not at all else, and releases it.
C3_DeferredReAdd ==
    [][ /\ \A k \in wq'.processing : Count(wq'.queue, k) = 0
        /\ \A w \in Workers :
              Releases(w) =>
                 /\ wk[w].key \notin wq'.processing
                 /\ Count(wq'.queue, wk[w].key) =
                       IF wk[w].key \in wq.dirty THEN 1 ELSE 0 ]_vars

\* A key has been added again while a worker processes it.
C3_Witness ==
    \E w \in Workers :
       /\ wk[w].pc = "done"
       /\ wk[w].key \in wq.processing
       /\ wk[w].key \in wq.dirty
       /\ Count(wq.queue, wk[w].key) = 0

\* C4. A string key whose cluster the cache does not hold: sync returns no
\* error, the strategy is not called, the key is forgotten and not requeued.
C4_NotFoundIsSuccess ==
    \A w \in Workers :
       (wk[w].pc = "done" /\ wk[w].lookup = "notfound") =>
          /\ ~wk[w].err
          /\ wk[w].calls = 0
          /\ wk[w].forgot /\ ~wk[w].requeued
          /\ wq.failures[wk[w].key] = 0

C4_Witness ==
    \E w \in Workers :
       wk[w].pc = "done" /\ wk[w].key.shape = "string" /\ wk[w].lookup = "notfound"

\* C5. A string key: a cluster found is passed to the strategy, once; an
\* error of the strategy or of the lookup requeues the key and does not
\* forget it, no error forgets it and does not requeue it.
C5_RequeueOrForget ==
    \A w \in Workers :
       (wk[w].pc = "done" /\ wk[w].key.shape = "string") =>
          /\ wk[w].lookup = "found" =>
                /\ wk[w].calls = 1
                /\ wk[w].arg = wk[w].es
                /\ wk[w].es = ClusterObj(wk[w].key.ns, wk[w].key.name, wk[w].es.rv)
                /\ wk[w].es.rv \in 1..esGen[<<wk[w].key.ns, wk[w].key.name>>]
          /\ wk[w].lookup # "found" => wk[w].calls = 0
          /\ wk[w].lookup = "error" => wk[w].err
          /\ wk[w].err => (wk[w].requeued /\ ~wk[w].forgot /\ wq.failures[wk[w].key] > 0)
          /\ ~wk[w].err => (wk[w].forgot /\ ~wk[w].requeued /\ wq.failures[wk[w].key] = 0)

\* The strategy has failed on a cluster found and the key is requeued.
C5_Witness ==
    \E w \in Workers :
       /\ wk[w].pc = "done" /\ wk[w].key.shape = "string"
       /\ wk[w].lookup = "found" /\ wk[w].err /\ wk[w].requeued

\* C6. A cluster object as key: its deletion timestamp is set, the strategy
\* is called once with it, the key is forgotten whatever the strategy
\* returned and never requeued, so that after its Done the queue holds it
\* nowhere.
C6_SnapshotOnce ==
    [][ /\ \A w \in Workers :
              (wk'[w].pc = "done" /\ wk'[w].key.shape = "cluster") =>
                 /\ wk'[w].stamped
                 /\ wk'[w].calls = 1 /\ wk'[w].arg = wk'[w].key
                 /\ wk'[w].forgot /\ ~wk'[w].requeued
                 /\ wq'.failures[wk'[w].key] = 0
        /\ \A k \in ClusterObjs : k \notin wq'.waiting
        /\ \A w \in Workers :
              (Releases(w) /\ wk[w].key.shape = "cluster") =>
                 /\ wk[w].key \notin wq'.dirty \cup wq'.processing
                 /\ Count(wq'.queue, wk[w].key) = 0 ]_vars

\* The strategy has failed on a cluster object and the key is forgotten.
C6_Witness ==
    \E w \in Workers :
       /\ wk[w].pc = "done" /\ wk[w].key.shape = "cluster"
       /\ wk[w].err /\ wk[w].forgot

\* C7. Update suppression: for each subordinate kind, an update with old
\* and cur equal leaves the queue as it is; an update with a changed object
\* does what queuing the owner's key does when cur passes the handler's
\* checks, and nothing else, so that no other key is queued.
C7_UpdateSuppression ==
    \A u \in UpdateEvents :
       /\ u[2] = u[3] => UpdateFunc(u[1], wq, u[2], u[3]) = wq
       /\ u[2] # u[3] =>
             UpdateFunc(u[1], wq, u[2], u[3]) =
                IF HasMarker(u[3]) /\ OwnerCached(u[3])
                THEN Add(wq, OwnerKey(u[3])) ELSE wq

\* The owner is cached and its key is not pending: a changed object queues
\* it, the same object does not.
C7_Witness ==
    \E c \in ClusterIds :
       /\ esPresent[c] /\ ~wq.shuttingDown
       /\ StringKey(c[1], c[2]) \notin wq.dirty
       /\ UpdateFunc("deploy", wq, SubObj("deploy", c[1], c[2], 1),
                     SubObj("deploy", c[1], c[2], 1)) = wq
       /\ UpdateFunc("deploy", wq, SubObj("deploy", c[1], c[2], 1),
                     SubObj("deploy", c[1], c[2], 2)) # wq

\* C8. Every delete event of a subordinate whose owner the cluster cache
\* holds leaves the owner's key pending, unless the queue is shut down.
C8_DeleteAlwaysEnqueues ==
    \A h \in HandlerCalls :
       (h[2].type \in {h[1], "tombstone"} /\ HasMarker(h[2]) /\ OwnerCached(h[2])
           /\ ~wq.shuttingDown) =>
          OwnerKey(h[2]) \in handle(h[1], wq, h[2]).dirty

\* C9. Router drop rule: a handler leaves the queue as it is when the
\* payload has another type, carries no marker, or names an owner the
\* cluster cache does not hold in the payload's namespace; it queues the
\* owner's key, and only that, when the three checks pass.
C9_RouterDropRule ==
    \A h \in HandlerCalls :
       handle(h[1], wq, h[2]) =
          IF ChecksPass(h[1], h[2]) THEN Add(wq, OwnerKey(h[2])) ELSE wq

\* The cache holds a cluster whose key is not pending: a payload naming it
\* from another namespace is dropped, one from its own namespace is not.
C9_Witness ==
    \E c \in ClusterIds :
       /\ esPresent[c] /\ ~wq.shuttingDown
       /\ StringKey(c[1], c[2]) \notin wq.dirty
       /\ \E ns \in Namespaces \ {c[1]} :
             handleService(wq, SubObj("service", ns, c[2], 1)) = wq
       /\ handleService(wq, SubObj("service", c[1], c[2], 1)) # wq
       /\ handleService(wq, SubObj("tombstone", c[1], c[2], 1)) = wq

\* C10. Startup barrier: a worker holds a key only when all five caches
\* have synced.
C10_StartupBarrier ==
    \A w \in Workers : Holds(w) => \A k \in CacheKinds : synced[k]

\* C11. Shutdown drain: once Run has returned no key is pending in the
\* queue and no worker holds a key.
C11_ShutdownDrain ==
    runPc = "returned" =>
       /\ wq.queue = <<>> /\ wq.dirty = {}
       /\ \A w \in Workers : ~Holds(w)

\* The positions of a worker between Get returning a key and its Done.
HoldPcs == {"dispatch", "strategy", "synced", "done"}

\* C12. Every Get that returns a key is followed by one Done of that key by
\* the same worker on every path: the keys being processed are the keys
\* the workers hold, a worker keeps its key until its own Done releases
\* it, and the Done comes after the AddRateLimited or Forget of a string
\* key or a cluster object.
C12_DoneOncePerGet ==
    [][ /\ wq'.processing =
              {wk'[w].key : w \in {v \in Workers : wk'[v].pc \in HoldPcs}}
        /\ \A w \in Workers :
              Holds(w) =>
                 \/ wk'[w].pc \in HoldPcs /\ wk'[w].key = wk[w].key
                 \/ /\ Releases(w)
                    /\ wk[w].key \notin wq'.processing
                    /\ wk[w].key.shape \in {"string", "cluster"} =>
                          (wk[w].forgot \/ wk[w].requeued) ]_vars

\* The two workers are about to call Done, one for a key of neither shape
\* and one for a string key it has requeued.
C12_Witness ==
    \E w1, w2 \in Workers :
       /\ wk[w1].pc = "done" /\ wk[w1].key.shape = "other"
       /\ wk[w2].pc = "done" /\ wk[w2].key.shape = "string" /\ wk[w2].requeued

\* Whether the cluster cache, given as what is present and at which
\* version, holds the object.
CacheHolds(present, gen, obj) ==
    /\ obj.shape = "cluster"
    /\ present[<<obj.ns, obj.name>>]
    /\ gen[<<obj.ns, obj.name>>] = obj.rv

\* C17. No step of a worker changes the cluster cache, and the only object
\* a worker writes to, the one whose deletion timestamp it sets, is the
\* cluster object it holds as its key, which the cache does not hold.
C17_CacheNotMutated ==
    [][ /\ (\E w \in Workers : wk'[w] # wk[w]) =>
              (esGen' = esGen /\ esPresent' = esPresent)
        /\ \A w \in Workers :
              wk'[w].stamped =>
                 /\ wk'[w].key.shape = "cluster"
                 /\ wk'[w].es = wk'[w].key
                 /\ ~CacheHolds(esPresent', esGen', wk'[w].es) ]_vars

\* A worker has stamped the object of a deleted cluster, the last the
\* cache held of it, and is about to call the strategy with it.
C17_Witness ==
    \E w \in Workers :
       /\ wk[w].stamped /\ wk[w].pc = "strategy"
       /\ esGen[<<wk[w].es.ns, wk[w].es.name>>] = wk[w].es.rv
       /\ ~esPresent[<<wk[w].es.ns, wk[w].es.name>>]

\* A worker is inside the call of the strategy, for the cluster it names.
InStrategy(w) == wk[w].pc = "strategy"
Identity(w) == <<wk[w].es.ns, wk[w].es.name>>

\* C19 as stated. At most one worker at a time is inside the strategy for
\* a cluster identity.
C19_PerClusterExclusion ==
    \A w1, w2 \in Workers :
       (w1 # w2 /\ InStrategy(w1) /\ InStrategy(w2)) => Identity(w1) # Identity(w2)

\* C19 as amended. Two workers inside the strategy for the same cluster
\* identity hold different keys, at most one of them the cluster's string
\* key.
C19_PerKeyExclusion ==
    \A w1, w2 \in Workers :
       (w1 # w2 /\ InStrategy(w1) /\ InStrategy(w2) /\ Identity(w1) = Identity(w2)) =>
          /\ wk[w1].key # wk[w2].key
          /\ ~(wk[w1].key.shape = "string" /\ wk[w2].key.shape = "string")

\* One worker is inside the strategy with the cluster's string key and the
\* other with the object of the same cluster, from a delete event.
C19_Witness ==
    \E w1, w2 \in Workers :
       /\ InStrategy(w1) /\ InStrategy(w2) /\ Identity(w1) = Identity(w2)
       /\ wk[w1].key.shape = "string" /\ wk[w2].key.shape = "cluster"

\* C20. A key that is neither a string nor a cluster object is released
\* with Done without a call of the strategy and without Forget or
\* AddRateLimited; the worker goes on with its loop, and the Done queues
\* the key only when an event has added it again meanwhile.
C20_OtherKeyReleased ==
    [][ \A w \in Workers :
          /\ (wk'[w].pc = "done" /\ wk'[w].key.shape = "other") =>
                /\ wk'[w].calls = 0 /\ ~wk'[w].stamped
                /\ ~wk'[w].forgot /\ ~wk'[w].requeued
          /\ (Releases(w) /\ wk[w].key.shape = "other") =>
                /\ wk'[w].pc = "get"
                /\ wq'.failures = wq.failures /\ wq'.waiting = wq.waiting
                /\ wk[w].key \notin wq'.processing
                /\ Count(wq'.queue, wk[w].key) =
                      IF wk[w].key \in wq.dirty THEN 1 ELSE 0 ]_vars

\* A worker is about to release a key of neither shape that no event has
\* added again.
C20_Witness ==
    \E w \in Workers :
       /\ wk[w].pc = "done" /\ wk[w].key.shape = "other"
       /\ wk[w].key \notin wq.dirty

\* C13. Level-triggered liveness: a key that is pending in the queue
\* before the stop signal is eventually held by a worker, and a key
\* requeued after a failure is eventually held by a worker again.
C13_EveryKeyDispatched ==
    \A k \in Keys :
       /\ (k \in wq.dirty /\ ~stopCh) ~> (\E w \in Workers : Holds(w) /\ wk[w].key = k)
       /\ (k \in wq.waiting /\ ~stopCh) ~> (\E w \in Workers : Holds(w) /\ wk[w].key = k)

\* C14. Shutdown propagation: once stopCh is closed and the queue is shut
\* down every worker eventually exits, and a worker that holds a key when
\* stopCh is closed gives it up only by its Done, so that what was in
\* flight runs to its end.
C14_ShutdownPropagation ==
    /\ (stopCh /\ wq.shuttingDown) ~> (\A w \in Workers : wk[w].pc = "exited")
    /\ [][ \A w \in Workers :
             (stopCh /\ Holds(w) /\ wk'[w].pc \notin HoldPcs) => Releases(w) ]_vars

\* The queue is shut down while one worker is inside the strategy and the
\* other waits in Get.
C14_Witness ==
    \E w1, w2 \in Workers :
       /\ stopCh /\ wq.shuttingDown
       /\ wk[w1].pc = "strategy" /\ wk[w2].pc = "get"

\* C15. Backoff monotonicity: an AddRateLimited of a key delays it by the
\* base delay when the key has no failure on record, which is so after a
\* Forget, and else by twice the delay of the AddRateLimited before it,
\* never less than that delay and never more than the cap.
C15_BackoffMonotone ==
    [][ \A k \in Keys :
          /\ (wq'.failures[k] = 0) = (wq'.delay[k] = 0)
          /\ wq'.failures[k] = wq.failures[k] + 1 =>
                /\ wq'.delay[k] >= wq.delay[k]
                /\ wq'.delay[k] <= MaxDelay
                /\ wq'.delay[k] =
                      IF wq.delay[k] = 0 THEN BaseDelay
                      ELSE Min(2 * wq.delay[k], MaxDelay)
          /\ (wq.failures[k] > 0 /\ wq'.failures[k] = 0) =>
                AddRateLimited(wq', k).delay[k] = BaseDelay ]_vars

\* A key has been requeued so often in a row that its delay is the cap
\* and doubling its last delay would exceed it.
C15_Witness ==
    \E k \in Keys :
       /\ wq.delay[k] = MaxDelay
       /\ BaseDelay * 2^(wq.failures[k] - 1) > MaxDelay

\* What the spec of the validator says of a cluster, stated by itself.
ValidRoles == {"data", "client", "master"}
BadRole(np) == \E j \in 1..Len(np.roles) : np.roles[j] \notin ValidRoles
BadState(np) == np.state.present /\ ~np.state.stateful /\ np.state.persistence
BadPools(c) == {i \in 1..Len(c.nodePools) : BadRole(c.nodePools[i]) \/ BadState(c.nodePools[i])}
Least(S) == CHOOSE i \in S : \A j \in S : i <= j

\* C16. Validator correctness: the validator returns an error exactly when
\* the version is empty, or a node pool has a role other than data, client
\* and master, or a node pool has a state block that is not stateful with
\* persistence enabled.
C16_ValidatorCorrect ==
    verr # NotVerified =>
       ((verr # NoError) <=>
           \/ cluster.version = ""
           \/ \E i \in 1..Len(cluster.nodePools) : BadRole(cluster.nodePools[i])
           \/ \E i \in 1..Len(cluster.nodePools) : BadState(cluster.nodePools[i]))

\* A cluster is accepted whose pools are one with no state block and one
\* that is neither stateful nor persistent, with valid roles.
C16_Witness ==
    /\ verr = NoError
    /\ Len(cluster.nodePools) = 2
    /\ cluster.nodePools[1].state = NilState
    /\ cluster.nodePools[2].state =
          [present |-> TRUE, stateful |-> FALSE, persistence |-> FALSE]
    /\ cluster.nodePools[2].roles # <<>>

\* C18. The validator returns the first violation in a fixed order: the
\* empty version before any node pool's error, the error of the earliest
\* invalid node pool, and in a pool its earliest invalid role before the
\* error of its state.
C18_FirstViolation ==
    verr # NotVerified =>
       verr =
          IF cluster.version = "" THEN ErrVersion
          ELSE IF BadPools(cluster) = {} THEN NoError
          ELSE LET np == cluster.nodePools[Least(BadPools(cluster))]
               IN  IF BadRole(np)
                   THEN ErrRole(np.roles[Least({j \in 1..Len(np.roles) :
                                                   np.roles[j] \notin ValidRoles})])
                   ELSE ErrPersistence

\* The first pool has an invalid role and an invalid state, the second
\* another invalid role, and the error names the role of the first.
C18_Witness ==
    /\ Len(cluster.nodePools) = 2
    /\ BadRole(cluster.nodePools[1]) /\ BadState(cluster.nodePools[1])
    /\ BadRole(cluster.nodePools[2])
    /\ cluster.nodePools[1].roles # cluster.nodePools[2].roles
    /\ verr = ErrRole(cluster.nodePools[1].roles[1])

====
